---- MODULE Spec2Model ----
(***************************************************************************)
(* Model of the "Images -> R2" panel: R2UploaderView (view.ts), the plugin *)
(* operations it calls (main.ts) and RecordsManager (records.ts).          *)
(*                                                                         *)
(* Text is a sequence of tokens.  A token is one image link, a newline or  *)
(* a run of plain text; the two regular expressions of buildItems are      *)
(* evaluated token by token.  Item objects live in a heap and are named by *)
(* identifiers, because the code finds its items by reference.             *)
(***************************************************************************)
EXTENDS Integers, Sequences, FiniteSets, Bags, TLC

\* ---------------------------------------------------------------- bounds
MaxLen == 3        \* tokens in a document
MaxProcs == 2      \* asynchronous handlers in flight at once
MaxDone == 2       \* successful transfers in one run
MaxUser == 3       \* edits, clicks and document switches of the user in one run

\* ---------------------------------------------------------------- names
NoName == [stem |-> "", uid |-> <<>>, ext |-> ""]
Nm(s, e) == [stem |-> s, uid |-> <<>>, ext |-> e]
APng == Nm("a", "png")
BPng == Nm("b c", "png")
Notes == Nm("notes", "pdf")

Docs == {"n1.md", "n2.md"}
NoFile == "null"

\* encodeURIComponent / decodeURIComponent on the characters the names use
EncStem(s) == IF s = "b c" THEN "b%20c" ELSE s
DecStem(s) == IF s = "b%20c" THEN "b c" ELSE s
encodeURIComponent(n) == [n EXCEPT !.stem = EncStem(n.stem)]
decodeURIComponent(n) == [n EXCEPT !.stem = DecStem(n.stem)]

\* ---------------------------------------------------------------- tokens
\* wiki: ![[name]]     md: ![alt](https://host/key)     nl: newline
Wiki(n) == [k |-> "wiki", alt |-> NoName, host |-> "", name |-> n]
Md(a, h, key) == [k |-> "md", alt |-> a, host |-> h, name |-> key]
NL == [k |-> "nl", alt |-> NoName, host |-> "", name |-> NoName]

ImageExts == {"png", "jpg", "jpeg", "gif", "webp", "svg", "bmp", "ico", "tiff", "tif"}
localRegex(t) == t.k = "wiki" /\ t.name.stem # "" /\ t.name.ext \in ImageExts
remoteRegex(t) == t.k = "md" /\ t.host # ""

\* the URL a markdown image link points at
UrlOf(t) == [host |-> t.host, key |-> t.name]

CustomDomain == "cdn"
ExtHost == "ext"

LA == Wiki(APng)
LB == Wiki(BPng)
LN == Wiki(Notes)
R1 == Md(Nm("x", ""), ExtHost, encodeURIComponent(BPng))

\* ---------------------------------------------------------------- items
NoErr == ""
SeqToSet(s) == {s[i] : i \in DOMAIN s}

\* identifiers for k new objects: the heap's objects are numbered 1 .. n
FreshIds(used, k) == [j \in 1 .. k |-> Cardinality(used) + j]

\* a line count that includes the match's own position
MutLineOf(content, i) == Cardinality({j \in 1 .. (i + 1) : j <= Len(content) /\ content[j] = NL})

\* content.substring(0, m.index).split('\n').length - 1
LineOf(content, i) == Cardinality({j \in 1 .. (i - 1) : content[j] = NL})

\* [...content.matchAll(re)].filter(first occurrence of m[0]): the positions kept
\* a filter that keeps every occurrence
MutSeenNever(seen, raw) == FALSE

\* seenLocal.has(m[0]) / seenRemote.has(m[0])
Seen(seen, raw) == raw \in seen

\* regex.test on one token, for the regex of the local or of the remote list
Test(re, t) == IF re = "local" THEN localRegex(t) ELSE remoteRegex(t)

\* for (const m of content.matchAll(regex)) with the seen filter: the match positions kept
RECURSIVE MatchesFrom(_, _, _, _)
MatchesFrom(content, re, i, seen) ==
    IF i > Len(content) THEN <<>>
    ELSE IF Test(re, content[i]) /\ ~Seen(seen, content[i])
         THEN <<i>> \o MatchesFrom(content, re, i + 1, seen \cup {content[i]})
         ELSE MatchesFrom(content, re, i + 1, seen)
Matches(content, re) == MatchesFrom(content, re, 1, {})

\* fileNameFromUrl: the last path segment, decoded; image.jpg when it has no '.'
fileNameFromUrl(t) ==
    LET name == decodeURIComponent(t.name)
    IN IF name.stem = "" \/ name.ext = "" THEN Nm("image", "jpg") ELSE name

\* plugin.resolveImageFile: the vault's file of that name, or null
resolveImageFile(vlt, imagePath) == IF imagePath \in vlt THEN imagePath ELSE NoName

NewLocal(vlt, content, i) ==
    [fullMatch |-> content[i], fileName |-> content[i].name,
     file |-> resolveImageFile(vlt, content[i].name),
     status |-> "idle", line |-> LineOf(content, i), error |-> NoErr]

NewRemote(vlt, content, i) ==
    [fullMatch |-> content[i], fileName |-> fileNameFromUrl(content[i]),
     file |-> NoName,
     status |-> "idle", line |-> LineOf(content, i), error |-> NoErr]

\* a lookup that never finds the previous item
MutExistingNone(h, list, fileChanged, raw) == 0

\* new Map(list.map(i => [i.fullMatch, i])).get(raw): the last item with that key
Existing(h, list, fileChanged, raw) ==
    LET hits == {j \in DOMAIN list : h[list[j]].fullMatch = raw}
    IN IF fileChanged \/ hits = {} THEN 0
       ELSE list[CHOOSE j \in hits : \A j2 \in hits : j2 <= j]

\* matches.map(m => existing ? {...existing, line} : new item)
MapMatches(h, list, fileChanged, content, ms, ids, re, vlt) ==
    [o \in SeqToSet(ids) |->
        LET n == CHOOSE n \in DOMAIN ids : ids[n] = o
            i == ms[n]
            ex == Existing(h, list, fileChanged, content[i])
        IN IF ex # 0 THEN [h[ex] EXCEPT !.line = LineOf(content, i)]
           ELSE IF re = "local" THEN NewLocal(vlt, content, i)
           ELSE NewRemote(vlt, content, i)]

\* a build that always takes the file for the current one
MutFileSame(file, cur) == FALSE

\* file.path !== this.currentFilePath
FileChanged(file, cur) == file # cur

\* buildItems(file, content): the new heap, both lists and currentFilePath
BuildItems(h, its, rits, cur, vlt, file, content) ==
    LET fileChanged == FileChanged(file, cur)
        lms == Matches(content, "local")
        rms == Matches(content, "remote")
        ids == FreshIds(DOMAIN h, Len(lms) + Len(rms))
        lids == SubSeq(ids, 1, Len(lms))
        rids == SubSeq(ids, Len(lms) + 1, Len(ids))
        lobj == MapMatches(h, its, fileChanged, content, lms, lids, "local", vlt)
        robj == MapMatches(h, rits, fileChanged, content, rms, rids, "remote", vlt)
    IN [heap |-> [o \in DOMAIN h \cup SeqToSet(ids) |->
                    IF o \in DOMAIN h THEN h[o]
                    ELSE IF o \in SeqToSet(lids) THEN lobj[o] ELSE robj[o]],
        items |-> lids, remoteItems |-> rids, currentFilePath |-> file]

\* ---------------------------------------------------------------- state
VARIABLES
    content,          \* text of each document (the editor buffer when it is open)
    vault,            \* names of the image files in the vault
    openDoc,          \* the document shown in the markdown editor, or null
    settings,         \* plugin.settings
    heap,             \* the item objects
    items,            \* this.items: object identifiers
    remoteItems,      \* this.remoteItems
    currentFilePath,  \* this.currentFilePath
    refreshTimer,     \* the debounce timer is pending
    dom,              \* the click handlers the last render attached
    procs,            \* handlers suspended at an await
    timers,           \* pending removal timers
    rec,              \* RecordsManager and its file
    nDone,            \* successful transfers so far
    nUser,            \* user inputs so far
    ev,               \* the operation that ran last
    call              \* one call of plugin.uploadImageFile: its arguments and its result

vars == <<content, vault, openDoc, settings, heap, items, remoteItems,
          currentFilePath, refreshTimer, dom, procs, timers, rec, nDone, nUser, ev,
          call>>

\* the part of the state the handlers write
Cur == [heap |-> heap, items |-> items, remoteItems |-> remoteItems,
        currentFilePath |-> currentFilePath, refreshTimer |-> refreshTimer,
        dom |-> dom, content |-> content, vault |-> vault, procs |-> procs,
        timers |-> timers, rec |-> rec, nDone |-> nDone,
        ev |-> [op |-> "", item |-> 0, res |-> "", file |-> NoFile, trans |-> {},
                from |-> "", batch |-> "", rest |-> <<>>, dropped |-> ev.dropped]]

\* the operation a step runs, for the properties to name it; ev.dropped tells that the
\* 'editor-change' listener has returned early since the last buildItems
Ev(s, op, o, res) == [s EXCEPT !.ev.op = op, !.ev.item = o, !.ev.res = res]
EvF(s, op, o, res, file) == [Ev(s, op, o, res) EXCEPT !.ev.file = file]
\* ... for a step that resumes the suspended call p: the status p's item had when its
\* transfer was started, the handler p runs in and the raw texts of the items that
\* handler still had to process
EvR(s, p, op, res) ==
    [EvF(s, op, p.item, res, p.file) EXCEPT
        !.ev.from = p.from, !.ev.batch = p.op,
        !.ev.rest = [j \in DOMAIN p.rest |-> s.heap[p.rest[j]].fullMatch]]

NoProc == [op |-> "", pc |-> "", item |-> 0, rest |-> <<>>, file |-> NoFile,
           base |-> "", path |-> NoName, from |-> ""]

\* objects some list, handler, suspended call or timer still refers to
Live(s) ==
    SeqToSet(s.items) \cup SeqToSet(s.remoteItems) \cup s.dom.up \cup s.dom.down
    \cup UNION {({p.item} \cup SeqToSet(p.rest)) \ {0} : p \in BagToSet(s.procs)}
    \cup {t.item : t \in BagToSet(s.timers)} \cup ({s.ev.item} \ {0})

\* the next state is s without its unreachable objects; the objects that stay
\* are renumbered 1 .. n in the order they were created
Commit(s) ==
    LET live == Live(s)
        rk(o) == IF o = 0 THEN 0 ELSE Cardinality({x \in live : x <= o})
        rp(p) == [p EXCEPT !.item = rk(@), !.rest = [j \in DOMAIN @ |-> rk(@[j])]]
        rt(t) == [t EXCEPT !.item = rk(@)]
    IN /\ heap' = [n \in 1 .. Cardinality(live) |-> s.heap[CHOOSE o \in live : rk(o) = n]]
       /\ items' = [j \in DOMAIN s.items |-> rk(s.items[j])]
       /\ remoteItems' = [j \in DOMAIN s.remoteItems |-> rk(s.remoteItems[j])]
       /\ currentFilePath' = s.currentFilePath
       /\ refreshTimer' = s.refreshTimer
       /\ dom' = [s.dom EXCEPT !.up = {rk(o) : o \in @}, !.down = {rk(o) : o \in @}]
       /\ content' = s.content
       /\ vault' = s.vault
       /\ procs' = [q \in {rp(p) : p \in DOMAIN s.procs} |->
                        s.procs[CHOOSE p \in DOMAIN s.procs : rp(p) = q]]
       /\ timers' = [q \in {rt(t) : t \in DOMAIN s.timers} |->
                        s.timers[CHOOSE t \in DOMAIN s.timers : rt(t) = q]]
       /\ rec' = s.rec
       /\ nDone' = s.nDone
       /\ ev' = [s.ev EXCEPT !.item = rk(@)]

Pending(st) == st = "idle" \/ st = "failed"

\* render(activeFile): the buttons that get a click listener
Render(s, activeFile) ==
    [s EXCEPT !.dom =
        IF activeFile = NoFile
        THEN [file |-> NoFile, up |-> {}, down |-> {}, upAll |-> FALSE, downAll |-> FALSE]
        ELSE [file |-> activeFile,
              up |-> {o \in SeqToSet(s.items) :
                        \/ s.heap[o].status = "idle" /\ s.heap[o].file # NoName
                        \/ s.heap[o].status = "failed"},
              down |-> {o \in SeqToSet(s.remoteItems) : Pending(s.heap[o].status)},
              upAll |-> \E o \in SeqToSet(s.items) : Pending(s.heap[o].status),
              downAll |-> \E o \in SeqToSet(s.remoteItems) : Pending(s.heap[o].status)]]

AnyUploading(s) ==
    \E o \in SeqToSet(s.items) \cup SeqToSet(s.remoteItems) : s.heap[o].status = "uploading"

\* the 'editor-change' listener of onOpen
OnEditorChange(s) ==
    IF AnyUploading(s) THEN [s EXCEPT !.ev.dropped = TRUE]
    ELSE [s EXCEPT !.refreshTimer = TRUE]

\* this.buildItems(file, content); this.render(file)
BuildAndRender(s, file, text) ==
    LET b == BuildItems(s.heap, s.items, s.remoteItems, s.currentFilePath, s.vault, file, text)
    IN Render([s EXCEPT !.heap = b.heap, !.items = b.items,
                        !.remoteItems = b.remoteItems,
                        !.currentFilePath = b.currentFilePath,
                        !.ev.dropped = FALSE], file)

Spawn(s, p) == [s EXCEPT !.procs = @ (+) SetToBag({p})]
Kill(s, p) == [s EXCEPT !.procs = @ (-) SetToBag({p})]
NProcs == BagCardinality(procs)

\* ---------------------------------------------------------------- editing
EditTokens == {LA, NL}

InsertAt(text, i, t) == SubSeq(text, 1, i - 1) \o <<t>> \o SubSeq(text, i, Len(text))
DeleteAt(text, i) == SubSeq(text, 1, i - 1) \o SubSeq(text, i + 1, Len(text))

\* the user types in the open document; the editor reports 'editor-change'
UserEdit ==
    /\ openDoc # NoFile
    /\ nUser < MaxUser
    /\ \E text \in {InsertAt(content[openDoc], i, t) :
                        i \in 1 .. (Len(content[openDoc]) + 1), t \in EditTokens}
                   \cup {DeleteAt(content[openDoc], i) : i \in DOMAIN content[openDoc]} :
          /\ Len(text) <= MaxLen
          /\ Commit(Ev(OnEditorChange([Cur EXCEPT !.content[openDoc] = text]),
                       "editor-change", 0, ""))
    /\ nUser' = nUser + 1
    /\ UNCHANGED <<call, openDoc, settings>>

\* ---------------------------------------------------------------- refresh
\* the debounce timer fires: refreshFromEditor()
RefreshFromEditor ==
    /\ refreshTimer
    /\ \E focused \in {openDoc # NoFile, FALSE} :
          LET s == [Cur EXCEPT !.refreshTimer = FALSE]
          IN Commit(Ev(IF focused THEN BuildAndRender(s, openDoc, content[openDoc]) ELSE s,
                       "refreshFromEditor", 0, IF focused THEN "built" ELSE ""))
    /\ UNCHANGED <<call, openDoc, settings, nUser>>

\* refreshCurrentFile() up to its await
RefreshCurrentFile(s) ==
    IF s.currentFilePath = NoFile THEN Render(s, NoFile)
    ELSE Spawn(s, [NoProc EXCEPT !.op = "refreshCurrentFile", !.pc = "cachedRead",
                                 !.file = s.currentFilePath])

\* the refresh button: refresh()
Refresh ==
    /\ nUser < MaxUser
    /\ NProcs < MaxProcs
    /\ \E focused \in {openDoc # NoFile, FALSE} :
          Commit(Ev(IF focused THEN BuildAndRender(Cur, openDoc, content[openDoc])
                    ELSE RefreshCurrentFile(Cur),
                    "refresh", 0, IF focused THEN "built" ELSE ""))
    /\ nUser' = nUser + 1
    /\ UNCHANGED <<call, openDoc, settings>>

\* the user opens another document (or closes the last one): 'file-open'
FileOpen ==
    /\ nUser < MaxUser
    /\ NProcs < MaxProcs
    /\ \E f \in (Docs \cup {NoFile}) \ {openDoc} :
          /\ openDoc' = f
          /\ Commit(Ev(IF f = NoFile
                       THEN Render([Cur EXCEPT !.currentFilePath = NoFile, !.items = <<>>,
                                               !.remoteItems = <<>>], NoFile)
                       ELSE Spawn(Cur, [NoProc EXCEPT !.op = "refreshForFile",
                                                      !.pc = "cachedRead", !.file = f]),
                       "file-open", 0, IF f = NoFile THEN "cleared" ELSE ""))
    /\ nUser' = nUser + 1
    /\ UNCHANGED <<call, settings>>

\* vault.cachedRead returns to refreshForFile or refreshCurrentFile
CachedReadReturn ==
    /\ \E p \in BagToSet(procs) :
          /\ p.pc = "cachedRead"
          /\ Commit(Ev(BuildAndRender(Kill(Cur, p), p.file, content[p.file]),
                       p.op, 0, "built"))
    /\ UNCHANGED <<call, openDoc, settings, nUser>>

\* ---------------------------------------------------------------- records
\* records.push(record) in memory, then save(): adapter.write of the whole array
PushAndSave(r, record) ==
    LET arr == Append(r.records, record)
    IN [r EXCEPT !.records = arr, !.writes = Append(@, [data |-> arr, of |-> record])]

\* addUpload / addDownload: load() returns at once when the cache is hydrated,
\* and else suspends at adapter.read
AddRecord(s, type, fileName, url, note) ==
    LET record == [type |-> type, fileName |-> fileName, url |-> url,
                   note |-> note, at |-> s.rec.now + 1]
        r == [s.rec EXCEPT !.now = @ + 1]
    IN [s EXCEPT !.rec =
          IF r.loaded THEN PushAndSave(r, record)
          ELSE [r EXCEPT !.reads = @ (+) SetToBag({[record |-> record, snap |-> r.disk]})]]

\* adapter.read returns to load(): this.records = JSON.parse(raw), then push, save.
\* The text read is the file as it was when the read was issued or as it is now.
LoadReturn(r, rd, raw) ==
    PushAndSave([r EXCEPT !.reads = @ (-) SetToBag({rd}), !.records = raw,
                          !.loaded = TRUE], rd.record)

RecordsLoad ==
    /\ \E rd \in BagToSet(rec.reads) : \E raw \in {rd.snap, rec.disk} :
          Commit(Ev([Cur EXCEPT !.rec = LoadReturn(rec, rd, raw)], "load", 0, ""))
    /\ UNCHANGED <<call, openDoc, settings, nUser>>

\* adapter.write returns to save(): the file holds the array that was serialised
SaveReturn(r) ==
    [r EXCEPT !.disk = Head(r.writes).data, !.writes = Tail(@),
              !.saved = @ \cup {Head(r.writes).of}]

RecordsSave ==
    /\ rec.writes # <<>>
    /\ Commit(Ev([Cur EXCEPT !.rec = SaveReturn(rec)], "save", 0, ""))
    /\ UNCHANGED <<call, openDoc, settings, nUser>>

\* ---------------------------------------------------------------- upload
ErrHttp == "HTTP 500"
ErrConfig == "Missing configuration"
ManagedDomain == "pub.r2.dev"

SetStatus(s, o, st) ==
    [s EXCEPT !.heap[o].status = st,
              !.ev.trans = IF s.heap[o].status = st THEN @
                           ELSE @ \cup {<<s.heap[o].status, st>>}]

\* a rewrite that stops after the first occurrence
MutReplaceFirst(text, raw, repl) ==
    [i \in DOMAIN text |->
        IF text[i] = raw /\ \A j \in 1 .. (i - 1) : text[j] # raw THEN repl ELSE text[i]]

\* current.split(raw).join(repl)
ReplaceAll(text, raw, repl) == [i \in DOMAIN text |-> IF text[i] = raw THEN repl ELSE text[i]]

\* a rewrite that does not ask for a live editor
MutRewriteNoEditor(s, file, raw, repl) ==
    LET current == s.content[file]
        updated == ReplaceAll(current, raw, repl)
    IN IF updated = current THEN s
       ELSE OnEditorChange([s EXCEPT !.content[file] = updated])

\* the rewrite of doUpload / doDownload: findEditorForFile, getValue, setValue;
\* setValue makes the editor report 'editor-change'
Rewrite(s, file, raw, repl) ==
    IF openDoc # file THEN s
    ELSE LET current == s.content[file]
             updated == ReplaceAll(current, raw, repl)
         IN IF updated = current THEN s
            ELSE OnEditorChange([s EXCEPT !.content[file] = updated])

\* doUpload up to its await
DoUploadStart(s, o) == [SetStatus(s, o, "uploading") EXCEPT !.heap[o].error = NoErr]

\* a doUpload that leaves the rewrite out while the record store is at work
MutUploadFinishBlocked(s, o, file, base, res) ==
    IF res = "ok"
    THEN LET it == s.heap[o]
             publicUrl == Md(it.fileName, base, encodeURIComponent(it.file))
             s1 == IF s.rec.writes # <<>> \/ s.rec.reads # EmptyBag
                   THEN SetStatus(s, o, "done")
                   ELSE Rewrite(SetStatus(s, o, "done"), file, it.fullMatch, publicUrl)
             s2 == AddRecord(s1, "upload", it.fileName, UrlOf(publicUrl), file)
         IN [s2 EXCEPT !.timers = @ (+) SetToBag({[item |-> o, file |-> file, list |-> "local"]}),
                       !.nDone = @ + 1]
    ELSE [SetStatus(s, o, "failed") EXCEPT !.heap[o].error = res]

\* doUpload after uploadImageFile has returned res ("ok" or an error message)
DoUploadFinish(s, o, file, base, res) ==
    IF res = "ok"
    THEN LET it == s.heap[o]
             publicUrl == Md(it.fileName, base, encodeURIComponent(it.file))
             s1 == Rewrite(SetStatus(s, o, "done"), file, it.fullMatch, publicUrl)
             s2 == AddRecord(s1, "upload", it.fileName, UrlOf(publicUrl), file)
         IN [s2 EXCEPT !.timers = @ (+) SetToBag({[item |-> o, file |-> file, list |-> "local"]}),
                       !.nDone = @ + 1]
    ELSE [SetStatus(s, o, "failed") EXCEPT !.heap[o].error = res]

\* for (const item of pending) { await doUpload(item); render(activeFile) } up to
\* the next await; uploadImageFile returns at once when the configuration is missing
RECURSIVE RunUploads(_, _, _, _, _)
RunUploads(s, op, file, base, rest) ==
    IF rest = <<>> THEN s
    ELSE LET o == Head(rest)
             s1 == DoUploadStart(s, o)
         IN IF ~settings.cfg
            THEN RunUploads(Render(DoUploadFinish(s1, o, file, base, ErrConfig), file),
                            op, file, base, Tail(rest))
            ELSE Spawn(s1, [NoProc EXCEPT !.op = op, !.pc = "uploadImageFile", !.item = o,
                                          !.rest = Tail(rest), !.file = file, !.base = base,
                                          !.from = s.heap[o].status])

\* a filter that forgets the file
MutPendingLocal(s) ==
    LET Keep(o) == Pending(s.heap[o].status)
    IN SelectSeq(s.items, Keep)

\* items.filter(i => (idle || failed) && i.file)
PendingLocal(s) ==
    LET Keep(o) == Pending(s.heap[o].status) /\ s.heap[o].file # NoName
    IN SelectSeq(s.items, Keep)

\* a handler that goes on without a base URL
MutAfterResolve(s, op, o, file, base) ==
    RunUploads(s, op, file, base, IF op = "uploadItem" THEN <<o>> ELSE PendingLocal(s))

\* uploadItem / uploadAll once resolveBaseUrl has returned base
AfterResolve(s, op, o, file, base) ==
    IF base = "" THEN s
    ELSE RunUploads(s, op, file, base, IF op = "uploadItem" THEN <<o>> ELSE PendingLocal(s))

\* uploadItem / uploadAll up to the first await
StartUpload(s, op, o, file) ==
    IF settings.customDomain # "" THEN AfterResolve(s, op, o, file, settings.customDomain)
    ELSE IF ~settings.cfg THEN s
    ELSE Spawn(s, [NoProc EXCEPT !.op = op, !.pc = "resolveBaseUrl", !.item = o,
                                 !.file = file])

\* uploadItem(item, activeFile) up to its first await
uploadItem(s, o, file) ==
    IF s.heap[o].file = NoName THEN s ELSE StartUpload(s, "uploadItem", o, file)

\* click on a row's upload or retry button
UploadItem ==
    /\ nUser < MaxUser
    /\ NProcs < MaxProcs
    /\ \E o \in dom.up :
          Commit(Ev(uploadItem(Cur, o, dom.file), "uploadItem", o, ""))
    /\ nUser' = nUser + 1
    /\ UNCHANGED <<call, openDoc, settings>>

\* click on the toolbar's upload-all button
UploadAll ==
    /\ nUser < MaxUser
    /\ NProcs < MaxProcs
    /\ dom.upAll
    /\ Commit(Ev(StartUpload(Cur, "uploadAll", 0, dom.file), "uploadAll", 0, ""))
    /\ nUser' = nUser + 1
    /\ UNCHANGED <<call, openDoc, settings>>

\* fetchManagedDomain returns to resolveBaseUrl
ResolveBaseUrlReturn ==
    /\ \E p \in BagToSet(procs) : \E base \in {ManagedDomain, ""} :
          /\ p.pc = "resolveBaseUrl"
          /\ Commit(EvR(AfterResolve(Kill(Cur, p), p.op, p.item, p.file, base),
                       p, "resolveBaseUrl", IF base = "" THEN "fail" ELSE "ok"))
    /\ UNCHANGED <<call, openDoc, settings, nUser>>

\* uploadImageFile returns to doUpload
UploadImageFileReturn ==
    /\ \E p \in BagToSet(procs) : \E res \in {"ok", ErrHttp} :
          /\ p.pc = "uploadImageFile"
          /\ res = "ok" => nDone < MaxDone
          /\ Commit(EvR(RunUploads(Render(DoUploadFinish(Kill(Cur, p), p.item, p.file,
                                                         p.base, res), p.file),
                                   p.op, p.file, p.base, p.rest),
                       p, "doUpload", IF res = "ok" THEN "ok" ELSE "fail"))
    /\ UNCHANGED <<call, openDoc, settings, nUser>>

\* ---------------------------------------------------------------- download
ErrStatus == "HTTP 404"
ErrExists == "File already exists."
UIDs == {"u1", "u2"}

\* uniquePath(path): the path itself when free, else base-uid.ext
uniquePath(vlt, path, uid) ==
    IF path \notin vlt THEN path ELSE [path EXCEPT !.uid = Append(@, uid)]

\* doDownload up to its first await (requestUrl)
DoDownloadStart(s, o) == [SetStatus(s, o, "uploading") EXCEPT !.heap[o].error = NoErr]

DoDownloadFail(s, o, msg) == [SetStatus(s, o, "failed") EXCEPT !.heap[o].error = msg]

\* a rewrite that embeds the name derived from the URL, not the saved file's name
MutDownloadFinish(s, o, file, savePath) ==
    LET it == s.heap[o]
        s1 == Rewrite([s EXCEPT !.vault = @ \cup {savePath}], file, it.fullMatch,
                      Wiki(it.fileName))
        s2 == AddRecord(SetStatus(s1, o, "done"), "download", savePath, UrlOf(it.fullMatch),
                        file)
    IN [s2 EXCEPT !.timers = @ (+) SetToBag({[item |-> o, file |-> file, list |-> "remote"]}),
                  !.nDone = @ + 1]

\* doDownload after createBinary has written savePath
DoDownloadFinish(s, o, file, savePath) ==
    LET it == s.heap[o]
        s1 == Rewrite([s EXCEPT !.vault = @ \cup {savePath}], file, it.fullMatch, Wiki(savePath))
        s2 == AddRecord(SetStatus(s1, o, "done"), "download", savePath, UrlOf(it.fullMatch),
                        file)
    IN [s2 EXCEPT !.timers = @ (+) SetToBag({[item |-> o, file |-> file, list |-> "remote"]}),
                  !.nDone = @ + 1]

\* a loop that takes the pending items from the end of the list
MutRunDownloads(s, op, file, rest) ==
    IF rest = <<>> THEN s
    ELSE LET o == rest[Len(rest)]
         IN Spawn(DoDownloadStart(s, o),
                  [NoProc EXCEPT !.op = op, !.pc = "requestUrl", !.item = o,
                                 !.rest = SubSeq(rest, 1, Len(rest) - 1), !.file = file,
                                 !.from = s.heap[o].status])

\* for (const item of pending) { await doDownload(item); render(activeFile) } up to
\* the next await
RunDownloads(s, op, file, rest) ==
    IF rest = <<>> THEN s
    ELSE Spawn(DoDownloadStart(s, Head(rest)),
               [NoProc EXCEPT !.op = op, !.pc = "requestUrl", !.item = Head(rest),
                              !.rest = Tail(rest), !.file = file,
                              !.from = s.heap[Head(rest)].status])

\* remoteItems.filter(i => idle || failed)
PendingRemote(s) ==
    LET Keep(o) == Pending(s.heap[o].status)
    IN SelectSeq(s.remoteItems, Keep)

\* click on a row's download or retry button
DownloadItem ==
    /\ nUser < MaxUser
    /\ NProcs < MaxProcs
    /\ \E o \in dom.down :
          Commit(Ev(RunDownloads(Cur, "downloadItem", dom.file, <<o>>), "downloadItem", o, ""))
    /\ nUser' = nUser + 1
    /\ UNCHANGED <<call, openDoc, settings>>

\* click on the toolbar's download-all button
DownloadAll ==
    /\ nUser < MaxUser
    /\ NProcs < MaxProcs
    /\ dom.downAll
    /\ Commit(Ev(RunDownloads(Cur, "downloadAll", dom.file, PendingRemote(Cur)),
                 "downloadAll", 0, ""))
    /\ nUser' = nUser + 1
    /\ UNCHANGED <<call, openDoc, settings>>

\* requestUrl returns to doDownload: a status outside 2xx fails the item; else the
\* folder is there, uniquePath picks savePath and createBinary is awaited
RequestUrlReturn ==
    /\ \E p \in BagToSet(procs) : \E res \in {"ok", ErrStatus} : \E uid \in UIDs :
          /\ p.pc = "requestUrl"
          /\ res # "ok" => uid = "u1"
          /\ LET s == Kill(Cur, p)
             IN Commit(EvR(IF res = "ok"
                           THEN Spawn(s, [p EXCEPT !.pc = "createBinary",
                                             !.path = uniquePath(s.vault,
                                                         s.heap[p.item].fileName, uid)])
                           ELSE RunDownloads(Render(DoDownloadFail(s, p.item, res), p.file),
                                             p.op, p.file, p.rest),
                           p, "requestUrl", IF res = "ok" THEN "ok" ELSE "fail"))
    /\ UNCHANGED <<call, openDoc, settings, nUser>>

\* createBinary returns to doDownload: it throws when the path is taken
CreateBinaryReturn ==
    /\ \E p \in BagToSet(procs) :
          /\ p.pc = "createBinary"
          /\ p.path \notin vault => nDone < MaxDone
          /\ LET s == Kill(Cur, p)
                 s1 == IF p.path \in s.vault THEN DoDownloadFail(s, p.item, ErrExists)
                       ELSE DoDownloadFinish(s, p.item, p.file, p.path)
             IN Commit(EvR(RunDownloads(Render(s1, p.file), p.op, p.file, p.rest),
                           p, "doDownload", IF p.path \in vault THEN "fail" ELSE "ok"))
    /\ UNCHANGED <<call, openDoc, settings, nUser>>

\* ---------------------------------------------------------------- faults
ErrSetValue == "setValue failed"

\* the rewrite calls editor.setValue: the document is open and holds the raw text
CallsSetValue(s, file, raw) ==
    openDoc = file /\ \E i \in DOMAIN s.content[file] : s.content[file][i] = raw

\* uploadImageFile returns success and editor.setValue throws: the item is 'done'
\* already, and the exception leaves doUpload and uploadItem / uploadAll
UploadRewriteThrows ==
    /\ \E p \in BagToSet(procs) :
          /\ p.pc = "uploadImageFile"
          /\ CallsSetValue(Cur, p.file, heap[p.item].fullMatch)
          /\ Commit(EvR(SetStatus(Kill(Cur, p), p.item, "done"), p, "doUpload", "throw"))
    /\ UNCHANGED <<call, openDoc, settings, nUser>>

\* createBinary has written the file and editor.setValue throws: doDownload's catch
\* fails the item, and downloadItem / downloadAll go on
DownloadRewriteThrows ==
    /\ \E p \in BagToSet(procs) :
          /\ p.pc = "createBinary"
          /\ p.path \notin vault
          /\ CallsSetValue(Cur, p.file, heap[p.item].fullMatch)
          /\ LET s == [Kill(Cur, p) EXCEPT !.vault = @ \cup {p.path}]
                 s1 == DoDownloadFail(s, p.item, ErrSetValue)
             IN Commit(EvR(RunDownloads(Render(s1, p.file), p.op, p.file, p.rest),
                           p, "doDownload", "throw"))
    /\ UNCHANGED <<call, openDoc, settings, nUser>>

\* adapter.write rejects: save() and addUpload / addDownload reject, and nobody awaits
\* them; the record stays in this.records
RecordsSaveFail ==
    /\ rec.writes # <<>>
    /\ Commit(EvF([Cur EXCEPT !.rec.writes = Tail(@)], "save", 0, "fail", Head(rec.writes).of.note))
    /\ UNCHANGED <<call, openDoc, settings, nUser>>

\* the removal timer of doUpload / doDownload fires
RemoveItem(s, t) ==
    LET s1 == [s EXCEPT !.timers = @ (-) SetToBag({t})]
        Keep(o) == o # t.item
    IN IF s1.currentFilePath # t.file THEN s1
       ELSE Render(IF t.list = "local" THEN [s1 EXCEPT !.items = SelectSeq(@, Keep)]
                   ELSE [s1 EXCEPT !.remoteItems = SelectSeq(@, Keep)], t.file)

RemovalTimer ==
    /\ \E t \in BagToSet(timers) : Commit(Ev(RemoveItem(Cur, t), "removal", 0, ""))
    /\ UNCHANGED <<call, openDoc, settings, nUser>>

\* ---------------------------------------------------------------- uploadImageFile
ErrRead == "ENOENT"
ErrNet == "net::ERR_FAILED"
ErrInvalid == "Invalid response"
ErrUnknown == "Unknown error"

Credentials == [accountId : {"", "acc"}, r2Token : {"", "tok"}, bucketName : {"", "bkt"}]

Statuses == {200, 201, 204, 403, 500}
HttpText == (200 :> "HTTP 200") @@ (201 :> "HTTP 201") @@ (204 :> "HTTP 204")
            @@ (403 :> "HTTP 403") @@ (500 :> "HTTP 500")

\* response bodies: text that is no JSON, or an object with its success flag, the
\* message of errors[0] ("" when it has none) and the key it reports ("" when none)
Bodies ==
    {[json |-> FALSE, success |-> FALSE, message |-> "", key |-> ""]}
    \cup [json : {TRUE}, success : BOOLEAN, message : {"", "denied"}, key : {"", "other"}]

\* what the calls awaited by uploadImageFile do: vault.readBinary resolves or rejects,
\* requestUrl rejects or resolves with a status and a body
Worlds == [read : {"ok", ErrRead}, net : {"ok", ErrNet}, status : Statuses, body : Bodies]

NoUrl == [host |-> "", key |-> NoName]
Failure(msg) == [success |-> FALSE, publicUrl |-> NoUrl, error |-> msg, thrown |-> FALSE]
Success(url) == [success |-> TRUE, publicUrl |-> url, error |-> NoErr, thrown |-> FALSE]

\* plugin.uploadImageFile(imageFile, baseUrl) with the settings st in the world w
uploadImageFile(st, imageFile, baseUrl, w) ==
    IF st.accountId = "" \/ st.r2Token = "" \/ st.bucketName = "" THEN Failure(ErrConfig)
    ELSE IF w.read # "ok" THEN Failure(w.read)
    ELSE IF w.net # "ok" THEN Failure(w.net)
    ELSE IF w.status # 200
    THEN Failure(IF w.body.json /\ w.body.message # "" THEN w.body.message
                 ELSE HttpText[w.status])
    ELSE IF ~w.body.json THEN Failure(ErrInvalid)
    ELSE IF ~w.body.success
    THEN Failure(IF w.body.message # "" THEN w.body.message ELSE ErrUnknown)
    ELSE Success([host |-> baseUrl, key |-> encodeURIComponent(imageFile)])

Calls ==
    [settings : Credentials, imageFile : {APng, BPng}, baseUrl : {CustomDomain, ManagedDomain},
     world : Worlds, returned : {FALSE}, result : {Failure(NoErr)}]

\* no call of uploadImageFile is looked at
NoCall ==
    [settings |-> [accountId |-> "acc", r2Token |-> "tok", bucketName |-> "bkt"],
     imageFile |-> APng, baseUrl |-> CustomDomain,
     world |-> [read |-> "ok", net |-> "ok", status |-> 200,
                body |-> [json |-> TRUE, success |-> TRUE, message |-> "", key |-> ""]],
     returned |-> TRUE, result |-> Failure(NoErr)]

\* the call runs to its return
UploadImageFile ==
    /\ ~call.returned
    /\ call' = [call EXCEPT !.returned = TRUE,
                            !.result = uploadImageFile(call.settings, call.imageFile,
                                                       call.baseUrl, call.world)]
    /\ UNCHANGED <<content, vault, openDoc, settings, heap, items, remoteItems,
                   currentFilePath, refreshTimer, dom, procs, timers, rec, nDone, nUser, ev>>

\* ---------------------------------------------------------------- system
NoDom == [file |-> NoFile, up |-> {}, down |-> {}, upAll |-> FALSE, downAll |-> FALSE]

InitContent == [d \in Docs |-> IF d = "n1.md" THEN <<LA, R1>> ELSE <<LA, LB>>]
InitVault == {APng}
\* a record an earlier session left in the records file
OldRecord ==
    [type |-> "upload", fileName |-> APng, url |-> [host |-> CustomDomain, key |-> APng],
     note |-> "n2.md", at |-> 0]

\* the view as its constructor leaves it
Constructed ==
    [heap |-> <<>>, items |-> <<>>, remoteItems |-> <<>>, currentFilePath |-> NoFile,
     refreshTimer |-> FALSE, dom |-> NoDom, content |-> InitContent, vault |-> InitVault,
     procs |-> EmptyBag, timers |-> EmptyBag,
     rec |-> [records |-> <<>>, loaded |-> FALSE, disk |-> <<OldRecord>>,
              reads |-> EmptyBag, writes |-> <<>>, saved |-> {}, now |-> 0],
     nDone |-> 0,
     ev |-> [op |-> "onOpen", item |-> 0, res |-> "", file |-> NoFile, trans |-> {},
             from |-> "", batch |-> "", rest |-> <<>>, dropped |-> FALSE]]

\* onOpen() with n1.md in the active editor: refresh() builds from the editor
Opened == BuildAndRender(Constructed, "n1.md", InitContent["n1.md"])

Init ==
    /\ content = InitContent
    /\ vault = InitVault
    /\ openDoc = "n1.md"
    /\ settings \in {[cfg |-> TRUE, customDomain |-> CustomDomain],
                     [cfg |-> TRUE, customDomain |-> ""]}
    /\ heap = Opened.heap
    /\ items = Opened.items
    /\ remoteItems = Opened.remoteItems
    /\ currentFilePath = Opened.currentFilePath
    /\ refreshTimer = Opened.refreshTimer
    /\ dom = Opened.dom
    /\ procs = Opened.procs
    /\ timers = Opened.timers
    /\ rec = Opened.rec
    /\ nDone = Opened.nDone
    /\ nUser = 0
    /\ ev = Opened.ev
    /\ call = NoCall

Next ==
    \/ UserEdit
    \/ RefreshFromEditor
    \/ Refresh
    \/ FileOpen
    \/ CachedReadReturn
    \/ UploadItem
    \/ UploadAll
    \/ ResolveBaseUrlReturn
    \/ UploadImageFileReturn
    \/ DownloadItem
    \/ DownloadAll
    \/ RequestUrlReturn
    \/ CreateBinaryReturn
    \/ RemovalTimer

\* the panel: every handler of the view; the records file is not read yet
Spec == Init /\ [][Next]_vars

\* single transfers and the record store they log to
NextLog ==
    \/ UploadItem
    \/ ResolveBaseUrlReturn
    \/ UploadImageFileReturn
    \/ DownloadItem
    \/ RequestUrlReturn
    \/ CreateBinaryReturn
    \/ RecordsLoad
    \/ RecordsSave

SpecLog == Init /\ [][NextLog]_vars

\* any configuration, and an editor that can fail
InitFault ==
    /\ content = InitContent
    /\ vault = InitVault
    /\ openDoc = "n1.md"
    /\ settings \in [cfg : BOOLEAN, customDomain : {CustomDomain, ""}]
    /\ heap = Opened.heap
    /\ items = Opened.items
    /\ remoteItems = Opened.remoteItems
    /\ currentFilePath = Opened.currentFilePath
    /\ refreshTimer = Opened.refreshTimer
    /\ dom = Opened.dom
    /\ procs = Opened.procs
    /\ timers = Opened.timers
    /\ rec = Opened.rec
    /\ nDone = Opened.nDone
    /\ nUser = 0
    /\ ev = Opened.ev
    /\ call = NoCall

NextFault ==
    \/ RefreshFromEditor
    \/ Refresh
    \/ CachedReadReturn
    \/ UploadItem
    \/ UploadAll
    \/ ResolveBaseUrlReturn
    \/ UploadImageFileReturn
    \/ UploadRewriteThrows
    \/ DownloadItem
    \/ DownloadAll
    \/ RequestUrlReturn
    \/ CreateBinaryReturn
    \/ DownloadRewriteThrows
    \/ RemovalTimer

SpecFault == InitFault /\ [][NextFault]_vars

\* single transfers, the record store, and an editor and a records file that can fail
NextLogFault ==
    \/ NextLog
    \/ UploadRewriteThrows
    \/ DownloadRewriteThrows
    \/ RecordsSaveFail

SpecLogFault == Init /\ [][NextLogFault]_vars

\* one call of uploadImageFile, for any settings, file, base URL and world
InitPut ==
    /\ content = InitContent
    /\ vault = InitVault
    /\ openDoc = "n1.md"
    /\ settings = [cfg |-> TRUE, customDomain |-> CustomDomain]
    /\ heap = Opened.heap
    /\ items = Opened.items
    /\ remoteItems = Opened.remoteItems
    /\ currentFilePath = Opened.currentFilePath
    /\ refreshTimer = Opened.refreshTimer
    /\ dom = Opened.dom
    /\ procs = Opened.procs
    /\ timers = Opened.timers
    /\ rec = Opened.rec
    /\ nDone = Opened.nDone
    /\ nUser = 0
    /\ ev = Opened.ev
    /\ call \in Calls

NextPut == UploadImageFile

SpecPut == InitPut /\ [][NextPut]_vars

\* ---------------------------------------------------------------- properties
TransferPcs == {"uploadImageFile", "requestUrl", "createBinary"}

\* C1: the debounced passive re-extraction (refreshFromEditor) never runs buildItems
\* while an item of either tracked list is 'uploading', whenever it was scheduled.
C1_PassiveSuppressed ==
    [][(ev'.op = "refreshFromEditor" /\ ev'.res = "built") => ~AnyUploading(Cur)]_vars

\* C2: the only status changes of an item are idle -> uploading, failed -> uploading,
\* uploading -> done and uploading -> failed; done is never left.
AllowedTransitions ==
    {<<"idle", "uploading">>, <<"failed", "uploading">>,
     <<"uploading", "done">>, <<"uploading", "failed">>}
C2_OnlyAllowedTransitions == ev.trans \subseteq AllowedTransitions

\* C3: a trigger on an item that is already transferring starts no second transfer:
\* at most one transfer is in flight for an item at any time.
C3_OneTransferPerItem ==
    \A o \in DOMAIN heap :
        LET on == {p \in BagToSet(procs) : p.item = o /\ p.pc \in TransferPcs}
        IN Cardinality(on) <= 1 /\ \A p \in on : CopiesIn(p, procs) <= 1

\* the records the store holds or has been asked to append
Accepted(r) == SeqToSet(r.records) \cup {rd.record : rd \in BagToSet(r.reads)}
Rewritten(old, new, raw, repl) ==
    /\ Len(new) = Len(old)
    /\ \A i \in DOMAIN old : new[i] = IF old[i] = raw THEN repl ELSE old[i]

C6_AppendOnly ==
    /\ \A r \in rec.saved : r \in SeqToSet(rec.records) /\ r \in SeqToSet(rec.disk)
    /\ rec.disk # <<>> /\ Head(rec.disk) = OldRecord

Tracked == SeqToSet(items) \cup SeqToSet(remoteItems)
TrackedNext == SeqToSet(items') \cup SeqToSet(remoteItems')

\* each item of list2 has the status and error of list's item with the same raw text,
\* and is idle without error when list has none
CarriedOrIdle(h, list, h2, list2) ==
    \A j \in DOMAIN list2 :
        LET it == h2[list2[j]]
            old == {h[list[k]] : k \in {k \in DOMAIN list : h[list[k]].fullMatch = it.fullMatch}}
        IN IF old # {}
           THEN \A x \in old : it.status = x.status /\ it.error = x.error
           ELSE it.status = "idle" /\ it.error = NoErr

\* C7: a re-extraction for the same document keeps the status and the error message of
\* every raw text that was tracked, and gives an untracked raw text an idle item with
\* no error.
C7_StatePreserved ==
    [][(ev'.res = "built" /\ currentFilePath' = currentFilePath) =>
          /\ CarriedOrIdle(heap, items, heap', items')
          /\ CarriedOrIdle(heap, remoteItems, heap', remoteItems')]_vars

\* a re-extraction has just run and the list holds a failed item with its message
C7_Witness ==
    /\ ev.res = "built"
    /\ \E o \in Tracked : heap[o].status = "failed" /\ heap[o].error # NoErr

FirstAt(text, t) == CHOOSE i \in DOMAIN text : text[i] = t /\ \A k \in 1 .. (i - 1) : text[k] # t

IsLocalLink(t) == t.k = "wiki" /\ t.name.stem # "" /\ t.name.ext \in ImageExts
IsRemoteLink(t) == t.k = "md" /\ t.host # ""
IsLink(re, t) == IF re = "local" THEN IsLocalLink(t) ELSE IsRemoteLink(t)

\* list holds one item per distinct token of text that the regex matches, in the order of the
\* first occurrences
OnePerMatch(list, text, re) ==
    LET raws == [j \in DOMAIN list |-> heap[list[j]].fullMatch]
    IN /\ SeqToSet(raws) = {text[i] : i \in {i \in DOMAIN text : IsLink(re, text[i])}}
       /\ \A j, k \in DOMAIN list :
             j < k => raws[j] # raws[k] /\ FirstAt(text, raws[j]) < FirstAt(text, raws[k])

\* C8: after a re-extraction each list holds exactly one item per distinct raw text
\* matched in the content, in order of first occurrence; an item whose raw text is gone
\* is not in the list.
C8_ListsMatchContent ==
    ev.res = "built" =>
        /\ OnePerMatch(items, content[currentFilePath], "local")
        /\ OnePerMatch(remoteItems, content[currentFilePath], "remote")

\* a re-extraction has just dropped the item of a transfer that is still in flight
C8_Witness ==
    /\ ev.res = "built"
    /\ \E p \in BagToSet(procs) :
          /\ p.pc \in TransferPcs /\ p.file = currentFilePath
          /\ heap[p.item].status = "uploading"
          /\ \A i \in DOMAIN content[currentFilePath] :
                content[currentFilePath][i] # heap[p.item].fullMatch

\* C9: a switch to no document empties both lists and clears currentFilePath; a build
\* for another document leaves every tracked item idle with no error.
C9_SwitchClears ==
    [][/\ (ev'.op = "file-open" /\ ev'.res = "cleared") =>
            items' = <<>> /\ remoteItems' = <<>> /\ currentFilePath' = NoFile
       /\ (ev'.res = "built" /\ currentFilePath' # currentFilePath) =>
            \A o \in TrackedNext : heap'[o].status = "idle" /\ heap'[o].error = NoErr]_vars

\* the new document tracks, idle, a raw text whose upload for the previous document
\* is still in flight
C9_Witness ==
    /\ ev.op = "refreshForFile"
    /\ \E p \in BagToSet(procs) :
          /\ p.pc \in TransferPcs /\ p.file # currentFilePath
          /\ heap[p.item].status = "uploading"
          /\ \E o \in Tracked :
                heap[o].fullMatch = heap[p.item].fullMatch /\ heap[o].status = "idle"

NoDuplicates(list) ==
    \A j, k \in DOMAIN list : j # k => heap[list[j]].fullMatch # heap[list[k]].fullMatch

\* C10: no two items of a list share their raw text, and after an extraction an item's
\* line is the line of the first occurrence of its raw text.
C10_UniqueRawText ==
    /\ NoDuplicates(items) /\ NoDuplicates(remoteItems)
    /\ ev.res = "built" =>
          \A o \in Tracked :
              LET text == content[currentFilePath]
                  at == FirstAt(text, heap[o].fullMatch)
              IN heap[o].line = Cardinality({k \in 1 .. (at - 1) : text[k] = NL})

\* an extraction has just run on a text that holds a raw text on two lines
C10_Witness ==
    /\ ev.res = "built"
    /\ \E i, j \in DOMAIN content[currentFilePath] :
          LET text == content[currentFilePath]
          IN /\ i < j /\ text[i] = text[j] /\ IsLocalLink(text[i])
             /\ \E k \in (i + 1) .. (j - 1) : text[k] = NL
             /\ \E o \in Tracked : heap[o].fullMatch = text[i] /\ heap[o].line = 0

\* a transfer has just failed at the transport level, for the document still shown
TransportFailed ==
    /\ ev'.op \in {"doUpload", "requestUrl"} /\ ev'.res = "fail"
    /\ currentFilePath = ev'.file

\* the tracked item with the raw text of the failed transfer shows the failure
FailureTracked ==
    LET it == heap'[ev'.item]
    IN /\ it.status = "failed" /\ it.error \in {ErrHttp, ErrStatus}
       /\ \A o \in Tracked : heap[o].fullMatch = it.fullMatch =>
             \E o2 \in TrackedNext :
                 /\ heap'[o2].fullMatch = it.fullMatch
                 /\ heap'[o2].status = "failed" /\ heap'[o2].error = it.error

\* a click on a failed row has just started its transfer again
RetryStarted ==
    /\ ev'.op \in {"uploadItem", "downloadItem", "resolveBaseUrl"} /\ ev'.item # 0
    /\ <<"failed", "uploading">> \in ev'.trans

RetryRuns ==
    /\ heap'[ev'.item].status = "uploading" /\ heap'[ev'.item].error = NoErr
    /\ \E p \in BagToSet(procs') :
          /\ p.item = ev'.item /\ p.from = "failed"
          /\ p.pc = IF ev'.op = "downloadItem" THEN "requestUrl" ELSE "uploadImageFile"

\* a transfer started from 'failed' has just succeeded
RetrySucceeded ==
    ev'.op \in {"doUpload", "doDownload"} /\ ev'.res = "ok" /\ ev'.from = "failed"

SuccessOutcome ==
    LET it == heap'[ev'.item]
        f == ev'.file
    IN /\ it.status = "done"
       /\ openDoc = f => \A i \in DOMAIN content'[f] : content'[f][i] # it.fullMatch
       /\ Cardinality(Accepted(rec') \ Accepted(rec)) = 1
       /\ \E t \in BagToSet(timers') : t.item = ev'.item /\ t.file = f

\* C11: after a transport failure the tracked item is 'failed' with the message and
\* stays in its list; a retry moves it failed -> uploading, clears the error and runs
\* the same operation; a retry that succeeds rewrites the document, appends one record
\* and arms the removal, as a first attempt does.
C11_FailThenRetry ==
    [][/\ TransportFailed => FailureTracked
       /\ RetryStarted => RetryRuns
       /\ RetrySucceeded => SuccessOutcome]_vars

BulkOps == {"uploadAll", "downloadAll"}
Raws(h, list) == [j \in DOMAIN list |-> h[list[j]].fullMatch]

\* the raw texts of the items of list a bulk operation finds pending, in list order
PendingRaws(h, list, needsFile) ==
    LET Yes(o) == /\ h[o].status \in {"idle", "failed"}
                  /\ needsFile => h[o].file # NoName
    IN Raws(h, SelectSeq(list, Yes))

\* uploadAll or downloadAll has just reached its loop; the transfer takes time
BatchStarted ==
    /\ settings.cfg
    /\ \/ ev'.op = "downloadAll"
       \/ ev'.op = "uploadAll" /\ settings.customDomain # ""
       \/ ev'.op = "resolveBaseUrl" /\ ev'.batch = "uploadAll" /\ ev'.res = "ok"

BatchPending ==
    IF ev'.op = "downloadAll" THEN PendingRaws(heap, remoteItems, FALSE)
    ELSE PendingRaws(heap, items, TRUE)

BatchOp == IF ev'.op = "downloadAll" THEN "downloadAll" ELSE "uploadAll"

\* a transfer that a handler awaited is over
TransferEnded ==
    \/ ev'.op \in {"doUpload", "doDownload"}
    \/ ev'.op = "requestUrl" /\ ev'.res = "fail"

\* a suspended call of the handler op is transferring one of the items raws and
\* holds the others
Attempting(op, raws) ==
    \E q \in BagToSet(procs') :
        /\ q.op = op /\ q.pc \in {"uploadImageFile", "requestUrl"}
        /\ heap'[q.item].status = "uploading"
        /\ Len(q.rest) = Len(raws) - 1
        /\ {heap'[q.item].fullMatch} \cup SeqToSet(Raws(heap', q.rest)) = SeqToSet(raws)

\* C12: a bulk operation attempts every item that was pending when it started: it
\* begins with all of them, and whenever the transfer of one of them is over, however
\* it ended, it goes on with the ones that are left.
C12_BatchNeverStops ==
    [][/\ (BatchStarted /\ BatchPending # <<>>) => Attempting(BatchOp, BatchPending)
       /\ (TransferEnded /\ ev'.batch \in BulkOps /\ ev'.rest # <<>>) =>
             Attempting(ev'.batch, ev'.rest)]_vars

\* a suspended call of the handler op is transferring the first of the items raws and
\* holds the others in their order
Processing(op, raws) ==
    \E q \in BagToSet(procs') :
        /\ q.op = op /\ q.pc \in {"uploadImageFile", "requestUrl"}
        /\ heap'[q.item].status = "uploading"
        /\ heap'[q.item].fullMatch = Head(raws)
        /\ Raws(heap', q.rest) = Tail(raws)

\* transfers in flight that the handler op awaits
InFlight(ps, op) ==
    LET on == {p \in BagToSet(ps) : p.op = op /\ p.pc \in TransferPcs}
    IN BagCardinality([p \in on |-> CopiesIn(p, ps)])

\* C13: a bulk operation takes its items in tracked-list order, and starts the next
\* item in the step in which the one before it has reached 'done' or 'failed': no
\* step adds a transfer to an invocation that has one in flight.
C13_BatchSequential ==
    [][/\ (BatchStarted /\ BatchPending # <<>>) => Processing(BatchOp, BatchPending)
       /\ (TransferEnded /\ ev'.batch \in BulkOps /\ ev'.rest # <<>>) =>
             /\ heap'[ev'.item].status \in {"done", "failed"}
             /\ Processing(ev'.batch, ev'.rest)
       /\ \A op \in BulkOps :
             InFlight(procs', op) <=
                 InFlight(procs, op) + IF BatchStarted /\ BatchOp = op THEN 1 ELSE 0]_vars

\* a bulk operation has just finished one item and started the next
C13_Witness ==
    /\ ev.batch \in BulkOps /\ ev.rest # <<>>
    /\ ev.op \in {"doUpload", "doDownload", "requestUrl"}
    /\ heap[ev.item].status \in {"done", "failed"}
    /\ \E q \in BagToSet(procs) :
          /\ q.op = ev.batch /\ heap[q.item].status = "uploading"
          /\ heap[q.item].fullMatch = Head(ev.rest)

\* a timer is pending or a handler is suspended at an await: something will run
\* without the user
Busy == refreshTimer \/ timers # EmptyBag \/ procs # EmptyBag

DoneTracked == \E o \in Tracked : heap[o].status = "done"

\* C14: an item whose transfer succeeded is removed from its list by its removal
\* timer, whatever re-extractions run before the timer fires: once every timer has
\* fired and every awaited call has returned, no tracked item is 'done'.
C14_DoneRemoved == ~Busy => ~DoneTracked

\* C15: a change notification that arrives while an item is transferring is deferred,
\* not lost: once no item is transferring and nothing is left to run, every such
\* notification has been followed by a re-extraction.
C15_DeferredNotLost == (~Busy /\ ~AnyUploading(Cur)) => ~ev.dropped

\* C16: when account id, token or bucket name is missing, uploadItem and uploadAll
\* abort before any item changes status, with or without a custom domain: no step of
\* an upload operation changes a status or stores the 'Missing configuration' error.
C16_ConfigAborts ==
    [][(~settings.cfg /\ ev'.op \in {"uploadItem", "uploadAll", "resolveBaseUrl"}) =>
          /\ ev'.trans = {}
          /\ \A o \in DOMAIN heap' : heap'[o].error # ErrConfig]_vars

\* uploadItem or uploadAll has just learnt that there is no base URL
Unresolved ==
    \/ ev'.op = "resolveBaseUrl" /\ ev'.res = "fail"
    \/ /\ ev'.op \in {"uploadItem", "uploadAll"}
       /\ settings.customDomain = "" /\ ~settings.cfg

\* raw text, status and error of the items of a list
Shown(h, list) ==
    [j \in DOMAIN list |-> <<h[list[j]].fullMatch, h[list[j]].status, h[list[j]].error>>]

\* C17: when resolveBaseUrl returns none, uploadItem and uploadAll leave the status and
\* error of every tracked item, the documents and the record log as they are and start
\* no upload.
C17_NoBaseNoEffect ==
    [][Unresolved =>
          /\ ev'.trans = {}
          /\ Shown(heap', items') = Shown(heap, items)
          /\ Shown(heap', remoteItems') = Shown(heap, remoteItems)
          /\ content' = content /\ rec' = rec /\ vault' = vault
          /\ InFlight(procs', "uploadItem") <= InFlight(procs, "uploadItem")
          /\ InFlight(procs', "uploadAll") <= InFlight(procs, "uploadAll")
          /\ BagCardinality(procs') <= BagCardinality(procs)]_vars

\* the managed domain was not found for an upload-all that had an item to upload
C17_Witness ==
    /\ ev.op = "resolveBaseUrl" /\ ev.res = "fail" /\ ev.batch = "uploadAll"
    /\ \E o \in SeqToSet(items) : heap[o].status = "idle" /\ heap[o].file # NoName

\* the item objects of local links
LocalObjects == {o \in DOMAIN heap : heap[o].fullMatch.k = "wiki"}

\* C18: no upload is attempted for a local item without a resolved file: uploadItem
\* on such an item changes nothing, uploadAll leaves it out of its loop, and the item
\* stays idle.
C18_NoFileNoUpload ==
    /\ \A o \in SeqToSet(items) :
          heap[o].file = NoName => uploadItem(Cur, o, currentFilePath) = Cur
    /\ \A o \in LocalObjects :
          heap[o].file = NoName => heap[o].status = "idle" /\ heap[o].error = NoErr
    /\ \A p \in BagToSet(procs) :
          p.op \in {"uploadItem", "uploadAll"} =>
              \A o \in ({p.item} \cup SeqToSet(p.rest)) \ {0} : heap[o].file # NoName

\* upload-all is transferring an item while the list holds one without a file
C18_Witness ==
    /\ \E p \in BagToSet(procs) :
          /\ p.op = "uploadAll" /\ p.pc = "uploadImageFile"
          /\ p.file = currentFilePath
    /\ \E o \in SeqToSet(items) : heap[o].file = NoName /\ heap[o].status = "idle"

\* the rewrite of a transfer whose remote operation succeeded has just thrown
RewriteFailed == ev'.op \in {"doUpload", "doDownload"} /\ ev'.res = "throw"

\* the write of a record to the records file has just failed
SaveFailed == ev'.op = "save" /\ ev'.res = "fail"

\* the tracked items whose transfer produced the record r
ItemsOf(r) ==
    IF currentFilePath' # r.note THEN {}
    ELSE IF r.type = "upload"
    THEN {o \in SeqToSet(items') : heap'[o].fileName = r.fileName}
    ELSE {o \in SeqToSet(remoteItems') : UrlOf(heap'[o].fullMatch) = r.url}

\* C19: when the document rewrite or the write of the record fails after the remote
\* operation has succeeded, the item ends 'failed' with an error message, for uploads
\* and for downloads.
C19_PersistenceFails ==
    [][/\ RewriteFailed =>
             heap'[ev'.item].status = "failed" /\ heap'[ev'.item].error # NoErr
       /\ SaveFailed =>
             \A o \in ItemsOf(Head(rec.writes).of) :
                 heap'[o].status = "failed" /\ heap'[o].error # NoErr]_vars

\* C20: a tracked item carries an error message only if its status is 'failed'.
C20_ErrorOnlyWhenFailed ==
    \A o \in Tracked : heap[o].error # NoErr => heap[o].status = "failed"

\* each item of list2 whose raw text list already tracked holds the file its target
\* resolves to in the vault vlt
ReResolved(h, list, h2, list2, vlt) ==
    \A j \in DOMAIN list2 :
        LET it == h2[list2[j]]
        IN (\E k \in DOMAIN list : h[list[k]].fullMatch = it.fullMatch) =>
               it.file = resolveImageFile(vlt, it.fullMatch.name)

\* C21: a re-extraction for the same document gives the item of a raw text that was
\* tracked the file its target resolves to at that time (an item first seen without a
\* file gets one once the file exists), and keeps its status and error message.
C21_FileReResolved ==
    [][(ev'.res = "built" /\ currentFilePath' = currentFilePath) =>
          /\ ReResolved(heap, items, heap', items', vault')
          /\ CarriedOrIdle(heap, items, heap', items')]_vars

\* C22: the path a download saves to is free when the file is written: no call that has
\* taken its path from uniquePath finds that path in the vault at createBinary, whatever
\* the vault holds, whatever suffix is drawn and whatever other downloads are in flight.
C22_SavePathFree ==
    \A p \in BagToSet(procs) : p.pc = "createBinary" => p.path \notin vault

Is2xx(n) == 200 <= n /\ n <= 299

\* the credentials are set, the file is read, the PUT completes with a 2xx status and
\* its body is JSON with the success flag set
PutSucceeds(c) ==
    /\ c.settings.accountId # "" /\ c.settings.r2Token # "" /\ c.settings.bucketName # ""
    /\ c.world.read = "ok" /\ c.world.net = "ok"
    /\ Is2xx(c.world.status)
    /\ c.world.body.json /\ c.world.body.success

\* C23: uploadImageFile never throws; it returns success exactly when the three
\* credentials are set, the PUT completes with a 2xx status and the body parses with its
\* success flag set; the public URL of a success is base/encoded file name whatever the
\* body reports, and every failure carries an error message.
C23_UploadResult ==
    call.returned /\ call # NoCall =>
        LET r == call.result
        IN /\ ~r.thrown
           /\ r.success = PutSucceeds(call)
           /\ r.success =>
                 r.publicUrl = [host |-> call.baseUrl, key |-> encodeURIComponent(call.imageFile)]
           /\ ~r.success => r.error # NoErr

\* a transfer has just succeeded and has run its rewrite
TransferSucceeded == ev'.op \in {"doUpload", "doDownload"} /\ ev'.res = "ok"

\* new is old with nothing but occurrences of raw changed, and none of them left
OnlyRawChanged(old, new, raw) ==
    /\ Len(new) = Len(old)
    /\ \A i \in DOMAIN old : IF old[i] = raw THEN new[i] # raw ELSE new[i] = old[i]

\* C24: the rewrite of a successful transfer starts from the editor's text as it is when
\* the transfer completes and changes only the occurrences of the item's raw text, so
\* what the user typed during the transfer stays; without a live editor for the
\* document no document changes.
C24_RewriteFrame ==
    [][TransferSucceeded =>
          LET f == ev'.file
          IN /\ \A d \in Docs \ {f} : content'[d] = content[d]
             /\ IF openDoc = f
                THEN OnlyRawChanged(content[f], content'[f], heap'[ev'.item].fullMatch)
                ELSE content'[f] = content[f]]_vars

\* the only click was followed by the only edit, which the listener dropped, and the
\* upload has just rewritten its link in the edited text
C24_Witness ==
    /\ ev.op = "doUpload" /\ ev.res = "ok" /\ ev.batch = "uploadItem"
    /\ openDoc = ev.file /\ nUser = 2 /\ nDone = 1 /\ ev.dropped
    /\ \E i \in DOMAIN content[ev.file] :
          /\ content[ev.file][i].k = "md"
          /\ content[ev.file][i].alt = heap[ev.item].fileName
    /\ ~OnlyRawChanged(InitContent[ev.file], content[ev.file], heap[ev.item].fullMatch)

\* a step of the record store: adapter.read or adapter.write has returned or failed
StoreStep == ev'.op \in {"load", "save"}

\* C25: a transfer that succeeds marks its item 'done' and rewrites the open document
\* whatever the record store is doing, and no step of the record store, a failed write
\* included, changes a document, the vault or the status of a tracked item.
C25_LogIndependent ==
    [][/\ TransferSucceeded =>
             /\ heap'[ev'.item].status = "done"
             /\ openDoc = ev'.file =>
                   \A i \in DOMAIN content'[ev'.file] :
                       content'[ev'.file][i] # heap'[ev'.item].fullMatch
       /\ StoreStep =>
             /\ content' = content /\ vault' = vault
             /\ Shown(heap', items') = Shown(heap, items)
             /\ Shown(heap', remoteItems') = Shown(heap, remoteItems)]_vars

\* the write of an upload's record has just failed; the item is 'done' and the
\* document holds the public link
C25_Witness ==
    /\ ev.op = "save" /\ ev.res = "fail" /\ ev.file = currentFilePath
    /\ \E o \in SeqToSet(items) :
          /\ heap[o].status = "done"
          /\ \A i \in DOMAIN content[ev.file] : content[ev.file][i] # heap[o].fullMatch
          /\ \E i \in DOMAIN content[ev.file] :
                /\ content[ev.file][i].k = "md"
                /\ content[ev.file][i].alt = heap[o].fileName

\* C26: no tracked item stays 'uploading' for ever, and the passive re-extraction is not
\* suppressed for ever: once every awaited call has returned and every timer has fired,
\* no item of either list is 'uploading'.
C26_NoStuckTransfer == ~Busy => ~AnyUploading(Cur)

\* a 'file-open' handler is suspended at its read
FileOpenPending == \E p \in BagToSet(procs) : p.op = "refreshForFile"

\* C27: when the last pending 'file-open' handler has finished, the panel is on the
\* document that was opened last: currentFilePath is that document's path, in whatever
\* order the reads of consecutive 'file-open' events have returned.
C27_LastOpenedWins ==
    (ev.op = "refreshForFile" /\ ~FileOpenPending /\ openDoc # NoFile) =>
        currentFilePath = openDoc

====
